---- MODULE Spec2Model ----
(***************************************************************************)
(* A model of theano.scan_module.scan.scan(): the construction routine     *)
(* that turns a step function fn, sequences, outputs_info, non_sequences   *)
(* and n_steps into either one direct invocation of fn (n_steps constant   *)
(* 1 or -1) or a Scan op application, and then unpacks the op's outputs.   *)
(*                                                                         *)
(* Conventions of the model                                                *)
(*  - Python lists are TLA+ sequences; indices stored by the code          *)
(*    (rightOrder, the keys of the return_steps dicts) stay 0-based as in  *)
(*    the code and At(s, i) reads s[i] the Python way.                     *)
(*  - A taps value is a record [form, val]: form "absent" (no 'taps' key), *)
(*    "none" (None), "scalar" (a bare int, val = <<k>>) or "list".         *)
(*  - A graph variable is a record [kind, src, k].  src is the 0-based     *)
(*    position of the sequence / output it was made from (or the id of a   *)
(*    non-sequence), k the tap or the index of the slice.                  *)
(*  - An array value (a window of a sequence, a buffer of the Scan op, a   *)
(*    slice of a buffer) is given by the sequence of source indices it     *)
(*    holds, so that Python slicing is computed, not assumed.              *)
(***************************************************************************)
EXTENDS Integers, Sequences, FiniteSets, TLC

VARIABLES
    pc,                    \* position of the call inside scan()
    err,                   \* the exception that ended the call ("" if none)
    fn, sequences, outputs_info, non_sequences, n_steps, go_backwards,
                           \* the arguments of the call, as passed
    caller_sequences, caller_outputs_info,
                           \* the caller's objects behind sequences and
                           \* outputs_info, as the call has left them
    seqs, outs_info, non_seqs, n_fixed_steps, n_outs, return_steps, warnings,
    scan_seqs, inner_seqs, inner_slices,
    actual_n_steps,
    mit_sot_scan_inputs, mit_sot_inner_inputs, mit_sot_inner_slices,
    mit_sot_inner_outputs, mit_sot_return_steps, mit_sot_tap_array,
    mit_sot_rightOrder,
    sit_sot_scan_inputs, sit_sot_inner_inputs, sit_sot_inner_slices,
    sit_sot_inner_outputs, sit_sot_return_steps, sit_sot_rightOrder,
    nit_sot_inner_outputs, nit_sot_return_steps, nit_sot_rightOrder,
    args, fn_calls, outputs, updates,
    dummy_f,
    shared_scan_inputs, shared_inner_inputs, shared_inner_outputs,
    other_shared_scan_args,
    inner_inputs, inner_outs, info, local_op,
    scan_inputs, scan_outs,
    result                 \* what scan() returned: [outputs, updates]

vars == << pc, err, fn, sequences, outputs_info, non_sequences, n_steps,
           go_backwards, caller_sequences, caller_outputs_info, seqs, outs_info, non_seqs, n_fixed_steps, n_outs,
           return_steps, warnings, scan_seqs, inner_seqs, inner_slices,
           actual_n_steps, mit_sot_scan_inputs, mit_sot_inner_inputs,
           mit_sot_inner_slices, mit_sot_inner_outputs, mit_sot_return_steps,
           mit_sot_tap_array, mit_sot_rightOrder, sit_sot_scan_inputs,
           sit_sot_inner_inputs, sit_sot_inner_slices, sit_sot_inner_outputs,
           sit_sot_return_steps, sit_sot_rightOrder, nit_sot_inner_outputs,
           nit_sot_return_steps, nit_sot_rightOrder, args, fn_calls, outputs,
           updates, dummy_f, shared_scan_inputs, shared_inner_inputs,
           shared_inner_outputs, other_shared_scan_args, inner_inputs,
           inner_outs, info, local_op, scan_inputs, scan_outs, result >>

----------------------------------------------------------------------------
(* Bounds of the model *)

\* most sequences in one call
MaxSeqs == 2
\* most entries of outputs_info, and most outputs fn returns
MaxOuts == 2
\* most non_sequences in one call
MaxNonSeqs == 2
\* longest sequence source
MaxLen == 3
\* largest |n_steps|
MaxSteps == 2
\* largest return_steps
MaxReturnSteps == 3

----------------------------------------------------------------------------
(* Python helpers *)

Abs(x) == IF x < 0 THEN -x ELSE x

Min2(a, b) == IF a < b THEN a ELSE b

Max2(a, b) == IF a > b THEN a ELSE b

At(s, i) == s[i + 1]

Range(s) == { s[j] : j \in 1..Len(s) }

SeqMin(s) == CHOOSE x \in Range(s) : \A y \in Range(s) : x <= y

SeqMax(s) == CHOOSE x \in Range(s) : \A y \in Range(s) : x >= y

\* max of a list of naturals prefixed with -1, plus one: numpy.max([-1] + l) + 1
MaxPlusOne(s) == IF s = << >> THEN 0 ELSE SeqMax(s) + 1

RECURSIVE Flatten(_)
Flatten(ss) == IF ss = << >> THEN << >> ELSE Head(ss) \o Flatten(Tail(ss))

RECURSIVE SumLen(_, _)
SumLen(ss, n) == IF n = 0 THEN 0 ELSE Len(ss[n]) + SumLen(ss, n - 1)

\* the sequence lo, lo+1, .., hi-1
Interval(lo, hi) == [ j \in 1..(IF hi > lo THEN hi - lo ELSE 0) |-> lo + j - 1 ]

Reverse(s) == [ j \in 1..Len(s) |-> s[Len(s) + 1 - j] ]

\* how Python places a slice bound i on a list of length L
Clamp(i, L) == IF i < 0 THEN Max2(i + L, 0) ELSE Min2(i, L)

\* x[a:], x[:b] and x[a:b] for a list x given by its elements
SliceFrom(x, a) == [ j \in 1..(Len(x) - Clamp(a, Len(x))) |-> x[Clamp(a, Len(x)) + j] ]

SliceTo(x, b) == [ j \in 1..Clamp(b, Len(x)) |-> x[j] ]

SliceFromTo(x, a, b) ==
    LET lo == Clamp(a, Len(x))
        hi == Clamp(b, Len(x))
    IN  [ j \in 1..(IF hi > lo THEN hi - lo ELSE 0) |-> x[lo + j] ]

\* the positions 0..Len(s)-1 of the entries of s that satisfy Test, in order
Positions(s, Test(_)) == SelectSeq(Interval(0, Len(s)), LAMBDA i : Test(At(s, i)))

EmptyDict == [ x \in {} |-> 0 ]

----------------------------------------------------------------------------
(* Values of the call's arguments *)

TapsAbsent == [form |-> "absent", val |-> << >>]

TapsNone == [form |-> "none", val |-> << >>]

TapsScalar(k) == [form |-> "scalar", val |-> << k >>]

TapsList(l) == [form |-> "list", val |-> l]

\* bool(d.get('taps', None))
TapsTruthy(t) ==
    \/ t.form = "scalar" /\ t.val[1] # 0
    \/ t.form = "list" /\ t.val # << >>

\* a sequence given as a bare variable, and as a dict(input=.., taps=..)
SeqVar(L) == [isdict |-> FALSE, len |-> L, taps |-> TapsAbsent]

SeqDict(L, t) == [isdict |-> TRUE, len |-> L, taps |-> t]

\* an entry of outputs_info: None, a bare variable, or a dict with an
\* optional initial state, optional taps and optional return_steps
\* (return_steps 0 stands for 0 and for a missing key: both are falsy)
OutNone == [form |-> "None", initial |-> FALSE, taps |-> TapsAbsent, return_steps |-> 0]

OutVar == [form |-> "var", initial |-> TRUE, taps |-> TapsAbsent, return_steps |-> 0]

OutDict(init, t, rs) == [form |-> "dict", initial |-> init, taps |-> t, return_steps |-> rs]

\* n_steps: None, a Python int, a constant of the graph, or a symbolic
\* scalar whose value is known only when the graph runs
NStepsNone == [kind |-> "None", val |-> 0]

NStepsInt(n) == [kind |-> "int", val |-> n]

NStepsConst(n) == [kind |-> "const", val |-> n]

NStepsVar(n) == [kind |-> "var", val |-> n]

\* a Python float whole.frac (frac in tenths, not 0): val is its whole part,
\* what int() keeps of it
NStepsFloat(whole, frac) == [kind |-> "float", val |-> whole, frac |-> frac]

\* float('nan'): a Python float that int() cannot convert
NStepsNaN == [kind |-> "nan", val |-> 0]

\* a symbolic scalar of a float dtype
NStepsFloatVar == [kind |-> "floatvar", val |-> 0]

\* a graph variable
Var(kind, src, k) == [kind |-> kind, src |-> src, k |-> k]

\* a Python argument that may be None, a single value or a list
ArgNone == [form |-> "none", val |-> << >>]

ArgSingle(x) == [form |-> "scalar", val |-> << x >>]

ArgList(l) == [form |-> "list", val |-> l]

----------------------------------------------------------------------------
(* Step 1.  Wrap all inputs in dictionaries and add default values *)

wrap_into_list(x) == IF x.form = "none" THEN << >> ELSE x.val

\* n_fixed_steps: int(n_steps) for a Python number, the constant's value for a
\* constant of the graph, None otherwise
FixedSteps(n) ==
    IF n.kind \in {"int", "float", "const"}
    THEN [known |-> TRUE, val |-> n.val]
    ELSE [known |-> FALSE, val |-> 0]

\* int(n_steps) raises: isinstance(n_steps, (float, int)) and n_steps is NaN
IntRaises(n) == n.kind = "nan"

\* hasattr(n_steps, 'dtype') and str(n_steps.dtype)[:3] not in ('uin', 'int')
NStepsDtypeRaises(n) == n.kind = "floatvar"

\* (mutant) only a forward single step is recognised
IsCollapsibleForwardOnly(nfs) == nfs.known /\ nfs.val = 1

\* n_fixed_steps in [1, -1]
IsCollapsible(nfs) == nfs.known /\ nfs.val \in {1, -1}

\* one pass of the loop that wraps the sequences
NormSeq(s) ==
    IF ~s.isdict THEN SeqDict(s.len, TapsList(<< 0 >>))
    ELSE IF TapsTruthy(s.taps) THEN [s EXCEPT !.taps = TapsList(wrap_into_list(s.taps))]
    ELSE IF s.taps.form = "none" THEN [s EXCEPT !.taps = TapsList(<< 0 >>)]
    ELSE s

\* bool(outs_info[i])
OutTruthy(e) ==
    \/ e.form = "var"
    \/ e.form = "dict" /\ (e.initial \/ e.taps.form # "absent" \/ e.return_steps # 0)

\* (variant) the error is kept for outputs that use several taps
OutRaisesForSeveralTaps(e) ==
    OutTruthy(e) /\ e.form = "dict" /\ ~e.initial /\ TapsTruthy(e.taps) /\ Len(e.taps.val) > 1

\* no initial state but taps provided: ValueError
OutRaises(e) ==
    OutTruthy(e) /\ e.form = "dict" /\ ~e.initial /\ TapsTruthy(e.taps)

\* (mutant) the warning does not look for the key 'taps'
OutWarnsWithoutKey(e) ==
    /\ OutTruthy(e) /\ e.form = "dict"
    /\ e.initial /\ ~TapsTruthy(e.taps)

\* initial state, taps not provided, and the dict has the key 'taps'
OutWarns(e) ==
    /\ OutTruthy(e) /\ e.form = "dict"
    /\ e.initial /\ ~TapsTruthy(e.taps)
    /\ e.taps.form # "absent"

\* one pass of the loop that wraps outputs_info
NormOut(e) ==
    IF ~OutTruthy(e) THEN OutDict(FALSE, TapsAbsent, 0)
    ELSE IF e.form # "dict" THEN OutDict(TRUE, TapsList(<< -1 >>), 0)
    ELSE IF e.initial /\ ~TapsTruthy(e.taps) THEN [e EXCEPT !.taps = TapsList(<< -1 >>)]
    ELSE e

\* What the wrapping loops leave in the caller's objects.  wrap_into_list
\* copies a list and puts a single value in a fresh list, so an assignment
\* seqs[i] = .. or outs_info[i] = .. stays in the copy, while an assignment
\* seqs[i]['taps'] = .. or outs_info[i]['taps'] = .. writes into the dict the
\* caller passed.
AfterNormSeqs(x) ==
    [x EXCEPT !.val = [ j \in 1..Len(x.val) |->
                          IF x.val[j].isdict THEN NormSeq(x.val[j]) ELSE x.val[j] ]]

\* first: the 1-based position of the entry whose wrapping raised
\* (Len + 1 if none did)
AfterNormOuts(x, first) ==
    [x EXCEPT !.val = [ j \in 1..Len(x.val) |->
                          IF j < first /\ OutTruthy(x.val[j]) /\ x.val[j].form = "dict"
                          THEN NormOut(x.val[j]) ELSE x.val[j] ]]

\* the return_steps dict: position -> return_steps, for the dicts that set it
ReturnSteps(l) ==
    [ i \in { j \in 0..(Len(l) - 1) :
                 OutTruthy(At(l, j)) /\ At(l, j).form = "dict" /\ At(l, j).return_steps # 0 }
        |-> At(l, i).return_steps ]

----------------------------------------------------------------------------
(* Step 2.  Inputs of the inner function: the sequences *)

HasTaps(d) == d.taps.form # "absent"

\* numpy.min(taps) of an empty list, or iterating a taps that is no list
SeqTapsError(s) ==
    HasTaps(s) /\ (s.taps.form # "list" \/ s.taps.val = << >>)

\* nw_seq: the part of the sequence of length L handed to the Scan op for
\* tap k, as the source indices it holds
Window(L, taps, k, backwards) ==
    LET mintap == SeqMin(taps)
        maxtap == SeqMax(taps)
        input  == Interval(0, L)
        offset == IF maxtap < 0 THEN Abs(maxtap) ELSE 0
        nw_seq == IF maxtap = mintap /\ maxtap # 0
                    THEN SliceTo(input, Abs(maxtap))
                  ELSE IF maxtap - k # 0
                    THEN SliceFromTo(input, offset + k - mintap, -(maxtap - k))
                  ELSE SliceFrom(input, offset + k - mintap)
    IN  IF backwards THEN Reverse(nw_seq) ELSE nw_seq

\* the taps of sequence i, or none when the dict has no 'taps' key
SeqTapsOf(s) == IF HasTaps(s) THEN s.taps.val ELSE << >>

ScanSeqs(ss, backwards) ==
    Flatten([ i \in 1..Len(ss) |->
        [ j \in 1..Len(SeqTapsOf(ss[i])) |->
            [src |-> i - 1, k |-> ss[i].taps.val[j],
             idx |-> Window(ss[i].len, ss[i].taps.val, ss[i].taps.val[j], backwards)] ] ])

InnerSeqs(ss) ==
    Flatten([ i \in 1..Len(ss) |->
        [ j \in 1..Len(SeqTapsOf(ss[i])) |-> Var("seq_ph", i - 1, ss[i].taps.val[j]) ] ])

InnerSlices(ss) ==
    Flatten([ i \in 1..Len(ss) |->
        [ j \in 1..Len(SeqTapsOf(ss[i])) |->
            Var("seq_at", i - 1, ss[i].taps.val[j] - SeqMin(ss[i].taps.val)) ] ])

\* scan_utils.isNaN_or_Inf_or_None(n_steps)
isNaN_or_Inf_or_None(n) == n.kind \in {"None", "nan"}

\* (variant) only the sequences are asked for the number of steps
LengthsVecOfSequences(sseqs, n) == [ j \in 1..Len(sseqs) |-> Len(sseqs[j].idx) ]

LengthsVec(sseqs, n) ==
    [ j \in 1..Len(sseqs) |-> Len(sseqs[j].idx) ]
        \o (IF isNaN_or_Inf_or_None(n) THEN << >> ELSE << n.val >>)

\* (mutant) n_steps levelled with the lengths of the sequences
ActualNStepsLevelled(lengths_vec, n) == SeqMin(lengths_vec)

\* the trip count
ActualNSteps(lengths_vec, n) ==
    IF isNaN_or_Inf_or_None(n) THEN SeqMin(lengths_vec) ELSE n.val

----------------------------------------------------------------------------
(* Step 2, continued.  The outputs: first classification pass *)

\* init_out.get('taps', None) == [-1]
IsSitSot(e) == e.taps.form = "list" /\ e.taps.val = << -1 >>

\* the elif branch: taps given and different from [-1]
IsMitSot(e) == ~IsSitSot(e) /\ TapsTruthy(e.taps)

\* (mutant) a tap of 0 is taken for a future tap
FutureTapsOrPresent(e) == \E j \in 1..Len(e.taps.val) : e.taps.val[j] >= 0

\* numpy.any(numpy.array(taps) > 0)
FutureTaps(e) == \E j \in 1..Len(e.taps.val) : e.taps.val[j] > 0

\* scan_utils.expand(initial[:mintap], actual_n_steps): the buffer of
\* output i handed to the Scan op, mintap initial entries then n to compute
Expand(i, mintap, n) == [src |-> i, pad |-> mintap, n |-> n]

SitSotRightOrder(oi) == Positions(oi, IsSitSot)

MitSotRightOrder(oi) == Positions(oi, IsMitSot)

MitSotTapArray(oi) ==
    LET ro == MitSotRightOrder(oi)
    IN  [ j \in 1..Len(ro) |-> At(oi, ro[j]).taps.val ]

\* the per-category return_steps dict: index inside the category -> steps
CategoryReturnSteps(ro, rs) ==
    [ idx \in { j \in 0..(Len(ro) - 1) : At(ro, j) \in DOMAIN rs } |-> rs[At(ro, idx)] ]

SitSotScanInputs(oi, n) ==
    LET ro == SitSotRightOrder(oi)
    IN  [ j \in 1..Len(ro) |-> Expand(ro[j], 1, n) ]

MitSotScanInputs(oi, n) ==
    LET ro == MitSotRightOrder(oi)
    IN  [ j \in 1..Len(ro) |-> Expand(ro[j], Abs(SeqMin(At(oi, ro[j]).taps.val)), n) ]

SitSotInnerInputs(oi) ==
    LET ro == SitSotRightOrder(oi)
    IN  [ j \in 1..Len(ro) |-> Var("out_ph", ro[j], -1) ]

\* actual_arg = init_out['initial']
SitSotInnerSlices(oi) ==
    LET ro == SitSotRightOrder(oi)
    IN  [ j \in 1..Len(ro) |-> Var("init", ro[j], 0) ]

MitSotInnerInputs(oi) ==
    LET ro == MitSotRightOrder(oi)
    IN  Flatten([ j \in 1..Len(ro) |->
            [ t \in 1..Len(At(oi, ro[j]).taps.val) |->
                Var("out_ph", ro[j], At(oi, ro[j]).taps.val[t]) ] ])

\* actual_nw_slice = init_out['initial'][k + mintap]
MitSotInnerSlices(oi) ==
    LET ro == MitSotRightOrder(oi)
    IN  Flatten([ j \in 1..Len(ro) |->
            [ t \in 1..Len(At(oi, ro[j]).taps.val) |->
                Var("init_at", ro[j],
                    At(oi, ro[j]).taps.val[t] + Abs(SeqMin(At(oi, ro[j]).taps.val))) ] ])

----------------------------------------------------------------------------
(* Re-order args and call fn *)

\* (mutant) the per-output arguments left in category order
OrderedArgsByCategory(mit_ro, tap_array, mit_in, sit_ro, sit_in) == mit_in \o sit_in

\* ordered_args: the per-output arguments put back in outputs_info order
OrderedArgs(mit_ro, tap_array, mit_in, sit_ro, sit_in) ==
    LET n_elems == Max2(MaxPlusOne(mit_ro), MaxPlusOne(sit_ro))
        slot(pos) ==
            IF \E j \in 1..Len(sit_ro) : sit_ro[j] = pos
            THEN << sit_in[CHOOSE j \in 1..Len(sit_ro) : sit_ro[j] = pos] >>
            ELSE IF \E j \in 1..Len(mit_ro) : mit_ro[j] = pos
            THEN LET idx == CHOOSE j \in 1..Len(mit_ro) : mit_ro[j] = pos
                     offset == SumLen(tap_array, idx - 1)
                 IN  SubSeq(mit_in, offset + 1, offset + Len(tap_array[idx]))
            ELSE << >>
    IN  Flatten([ p \in 1..n_elems |-> slot(p - 1) ])

NonSeqArgs(ns) == [ j \in 1..Len(ns) |-> Var("nonseq", ns[j].id, 0) ]

\* args = inner_seqs (or inner_slices) + ordered_args + non_seqs
Args(first, ordered, ns) == first \o ordered \o NonSeqArgs(ns)

\* an output of the inner function: output pos of fn, or the update rule
\* of shared variable pos
Out(kind, pos, tensor) == [kind |-> kind, pos |-> pos, tensor |-> tensor]

\* a value built from an output: the output itself (via "fn"), possibly
\* with a leading axis of length 1 added (padleft), or the entries idx of the
\* Scan op's buffer for it (via "scan"; pad of them hold the initial state,
\* axis says whether the leading axis is kept)
Value(out, via, padleft, pad, idx, axis) ==
    [out |-> out, via |-> via, padleft |-> padleft, pad |-> pad, idx |-> idx, axis |-> axis]

Direct(out) == Value(out, "fn", FALSE, 0, << >>, FALSE)

NoValue == Value(Out("none", 0, FALSE), "none", FALSE, 0, << >>, FALSE)

\* the outputs fn returns, as a list
FnOutputs(f) == [ j \in 1..f.nouts |-> Direct(Out("fnout", j - 1, (j - 1) \notin f.nontensor)) ]

\* the update dictionary fn returns: shared variable -> its update rule
FnUpdates(f) ==
    [ c \in { f.shared[j].cell : j \in { x \in 1..Len(f.shared) : f.shared[x].update } }
        |-> Direct(Out("update", c, TRUE)) ]

----------------------------------------------------------------------------
(* Step 3.  n_steps is 1 or -1: return what fn returned *)

\* tensor.unbroadcast(tensor.shape_padleft(inner_out), 0) where it applies
PadOutputs(outs, rs) ==
    [ j \in 1..Len(outs) |->
        IF outs[j].out.tensor /\ (IF (j - 1) \in DOMAIN rs THEN rs[j - 1] ELSE 0) # 1
        THEN [outs[j] EXCEPT !.padleft = TRUE]
        ELSE outs[j] ]

\* if len(outputs) == 1: outputs = outputs[0]
CollapsedOutputs(outs) ==
    IF Len(outs) = 1 THEN [form |-> "single", vals |-> outs]
    ELSE [form |-> "list", vals |-> outs]

----------------------------------------------------------------------------
(* Steps 4 and 5.  The dummy function and the second classification pass *)

\* theano.function(dummy_args, outputs, updates = updates): what scan reads
\* of the compiled function, its outputs and the shared variables it found
DummyFunction(f) == [compiled |-> TRUE, n_outputs |-> f.nouts, expanded_inputs |-> f.shared]

\* not (len(dummy_f.maker.outputs) == n_outs or outs_info == [])
OutputCountMismatch(df, n, oi) == ~(df.n_outputs = n \/ oi = << >>)

\* if outs_info == []: one empty dict per output of fn
ProbedOutsInfo(df, oi) ==
    IF oi = << >> THEN [ j \in 1..df.n_outputs |-> OutDict(FALSE, TapsAbsent, 0) ] ELSE oi

\* Step 5.1: 'taps' in out and out['taps'] != [-1]
InMitSotOutputs(e) == HasTaps(e) /\ ~(e.taps.form = "list" /\ e.taps.val = << -1 >>)

\* Step 5.2: 'taps' in out and out['taps'] == [-1]
InSitSotOutputs(e) == HasTaps(e) /\ e.taps.form = "list" /\ e.taps.val = << -1 >>

\* Step 5.4: not 'taps' in out
InNitSotOutputs(e) == ~HasTaps(e)

\* the outputs of fn at the positions of outs_info that satisfy Test
\* (for i, out in enumerate(outs_info): ... append(outputs[i]))
InnerOutputs(oi, outs, Test(_)) ==
    LET ro == Positions(oi, Test)
    IN  [ j \in 1..Len(ro) |-> At(outs, ro[j]).out ]

NitSotRightOrder(oi) == Positions(oi, InNitSotOutputs)

\* Step 5.3: the shared variables with an update rule, in the order found
WithUpdate(df) == SelectSeq(df.expanded_inputs, LAMBDA x : x.update)

WithoutUpdate(df) == SelectSeq(df.expanded_inputs, LAMBDA x : ~x.update)

SharedScanInputs(df) == [ j \in 1..Len(WithUpdate(df)) |-> WithUpdate(df)[j].cell ]

SharedInnerInputs(df) ==
    [ j \in 1..Len(WithUpdate(df)) |-> Var("shared_copy", WithUpdate(df)[j].cell, 0) ]

SharedInnerOutputs(df) ==
    [ j \in 1..Len(WithUpdate(df)) |-> Out("update", WithUpdate(df)[j].cell, TRUE) ]

\* Step 5.6: shared variables with no update rule
OtherSharedScanArgs(df) ==
    [ j \in 1..Len(WithoutUpdate(df)) |-> WithoutUpdate(df)[j].cell ]

OtherSharedInnerArgs(df) ==
    [ j \in 1..Len(WithoutUpdate(df)) |-> Var("shared_copy", WithoutUpdate(df)[j].cell, 0) ]

\* Step 5.5: the non sequences that are no shared variables
OtherScanArgs(ns) == SelectSeq(ns, LAMBDA a : ~a.shared)

OtherInnerArgs(ns) ==
    [ j \in 1..Len(OtherScanArgs(ns)) |-> Var("nonseq_copy", OtherScanArgs(ns)[j].id, 0) ]

----------------------------------------------------------------------------
(* Steps 6 to 8.  The Scan op and its inputs *)

\* (variant) the copies of the non sequences put before those of the shared
\* variables without an update
InnerInputsOthersFirst(iseqs, mit_in, sit_in, shared_in, other_shared_in, other_in) ==
    iseqs \o mit_in \o sit_in \o shared_in \o other_in \o other_shared_in

InnerInputs(iseqs, mit_in, sit_in, shared_in, other_shared_in, other_in) ==
    iseqs \o mit_in \o sit_in \o shared_in \o other_shared_in \o other_in

InnerOuts(mit_out, sit_out, nit_out, shared_out) ==
    mit_out \o sit_out \o nit_out \o shared_out

Info(tap_array, nseqs, nmit, nsit, nshared, nnit) ==
    [tap_array |-> tap_array \o [ x \in 1..nsit |-> << -1 >> ],
     n_seqs |-> nseqs, n_mit_mot |-> 0, n_mit_sot |-> nmit, n_sit_sot |-> nsit,
     n_shared_outs |-> nshared, n_nit_sot |-> nnit]

In(kind, v) == [kind |-> kind, v |-> v]

ScanInputs(n, sseqs, mit, sit, shared, nnit, other_shared, other) ==
    << In("n_steps", n) >>
        \o [ j \in 1..Len(sseqs) |-> In("seq", sseqs[j]) ]
        \o [ j \in 1..Len(mit) |-> In("mit_sot", mit[j]) ]
        \o [ j \in 1..Len(sit) |-> In("sit_sot", sit[j]) ]
        \o [ j \in 1..Len(shared) |-> In("shared", shared[j]) ]
        \o [ j \in 1..nnit |-> In("n_steps", n) ]
        \o [ j \in 1..Len(other_shared) |-> In("other_shared", other_shared[j]) ]
        \o [ j \in 1..Len(other) |-> In("other", other[j].id) ]

\* The Scan op applied to scan_inputs: one result per inner output, in the
\* order of inner_outs.  The op reads the category of a result off its
\* position and the counts of info: a mit_sot or sit_sot result is a buffer
\* of its padding (|min(taps)| initial entries) followed by the |n| computed
\* entries, a nit_sot result the |n| computed entries, any further result
\* the final value of a shared variable.
ScanOp(io, inf, n) ==
    [ j \in 1..Len(io) |->
        IF j <= inf.n_mit_sot + inf.n_sit_sot
        THEN LET pad == Abs(SeqMin(inf.tap_array[j]))
             IN  Value(io[j], "scan", FALSE, pad, Interval(0, pad + Abs(n)), TRUE)
        ELSE IF j <= inf.n_mit_sot + inf.n_sit_sot + inf.n_nit_sot
        THEN Value(io[j], "scan", FALSE, 0, Interval(0, Abs(n)), TRUE)
        ELSE Value(io[j], "scan", FALSE, 0, << >>, FALSE) ]

\* The order in which the Scan op reads the entries of the windowed
\* sequences it is given: as they are for a trip count n >= 0, last entry
\* first for a negative one ("if the value is negative, scan runs backwards
\* in time; if the go_backwards flag is already set and also n_steps is
\* negative, scan will run forward in time").
ScanOpSeqs(sseqs, n) ==
    [ j \in 1..Len(sseqs) |-> IF n < 0 THEN Reverse(sseqs[j].idx) ELSE sseqs[j].idx ]

----------------------------------------------------------------------------
(* Steps 9 and 10.  Unpack the outputs of the Scan op *)

\* out[-k:]
LastSteps(out, k) == [out EXCEPT !.idx = SliceFrom(out.idx, -k)]

\* out[-1]
LastStep(out) ==
    [out EXCEPT !.idx = SliceFrom(out.idx, -1), !.axis = FALSE]

\* out[offset:]
FromOffset(out, offset) == [out EXCEPT !.idx = SliceFrom(out.idx, offset)]

\* remove_dimensions(outs, steps_return, offsets); offsets = << >> is None
remove_dimensions(outs, steps_return, offsets) ==
    [ j \in 1..Len(outs) |->
        IF (j - 1) \in DOMAIN steps_return
        THEN IF steps_return[j - 1] > 1
             THEN LastSteps(outs[j], steps_return[j - 1])
             ELSE LastStep(outs[j])
        ELSE IF offsets = << >> THEN outs[j]
             ELSE FromOffset(outs[j], offsets[j]) ]

\* scan_outs[a : a + n]
Part(outs, a, n) == SliceFromTo(outs, a, a + n)

\* rightOrder = mit_sot_rightOrder + sit_sot_rightOrder + nit_sot_rightOrder
RightOrder(mit_ro, sit_ro, nit_ro) == mit_ro \o sit_ro \o nit_ro

\* scan_out_list[pos] = _scan_out_list[idx] raises IndexError
ScatterFails(ro) == \E j \in 1..Len(ro) : ro[j] >= Len(ro)

\* scan_out_list = [None] * len(rightOrder), then filled position by position
Scatter(ro, ls) ==
    [ p \in 1..Len(ro) |->
        IF \E j \in 1..Len(ro) : ro[j] = p - 1
        THEN ls[CHOOSE j \in 1..Len(ro) : ro[j] = p - 1 /\ \A x \in (j + 1)..Len(ro) : ro[x] # p - 1]
        ELSE NoValue ]

\* one output is returned bare, none as None
ScanOutput(l) ==
    IF Len(l) = 1 THEN [form |-> "single", vals |-> l]
    ELSE IF Len(l) = 0 THEN [form |-> "None", vals |-> l]
    ELSE [form |-> "list", vals |-> l]

\* update_map[shared_scan_inputs[idx]] = update_rule
UpdateMap(shared, outs) ==
    [ c \in { shared[j] : j \in 1..Min2(Len(shared), Len(outs)) } |->
        outs[CHOOSE j \in 1..Min2(Len(shared), Len(outs)) :
                shared[j] = c /\ \A x \in (j + 1)..Min2(Len(shared), Len(outs)) : shared[x] # c] ]

----------------------------------------------------------------------------
(* The call, one action per step of scan() *)

NoResult == [outputs |-> [form |-> "unset", vals |-> << >>], updates |-> EmptyDict]

\* the exceptions a call can end with
ErrIntConversion == "ValueError: cannot convert float NaN to integer"

ErrNStepsDtype == "ValueError: n_steps must be an int"

ErrNoInitialState == "ValueError: if you are using slices of an output you need to provide a initial state for it"

ErrSequenceTaps == "Error: the taps of a sequence are no list or an empty list"

ErrNoSteps == "ValueError: no information about the number of steps provided"

ErrFutureTaps == "ValueError: can not use future taps of outputs"

ErrOutputCount == "ValueError: please provide None as output_info for any output that does not feed back into scan"

ErrScatter == "IndexError: list assignment index out of range"

Raise(e) == /\ pc' = "raised"
            /\ err' = e

\* Step 1 (lines 313-382)
Normalize ==
    /\ pc = "start"
    /\ LET ss == wrap_into_list(sequences)
           oi == wrap_into_list(outputs_info)
           bad == { j \in 1..Len(oi) : OutRaises(oi[j]) }
           first == IF bad = {} THEN Len(oi) + 1
                    ELSE CHOOSE j \in bad : \A x \in bad : j <= x
       IN  /\ non_seqs' = wrap_into_list(non_sequences)
           /\ IF IntRaises(n_steps) \/ NStepsDtypeRaises(n_steps)
              THEN /\ Raise(IF IntRaises(n_steps) THEN ErrIntConversion ELSE ErrNStepsDtype)
                   /\ seqs' = ss
                   /\ outs_info' = oi
                   /\ n_fixed_steps' = IF IntRaises(n_steps) THEN n_fixed_steps
                                       ELSE FixedSteps(n_steps)
                   /\ UNCHANGED << n_outs, return_steps, warnings,
                                   caller_sequences, caller_outputs_info >>
              ELSE /\ seqs' = [ j \in 1..Len(ss) |-> NormSeq(ss[j]) ]
                   /\ caller_sequences' = AfterNormSeqs(sequences)
                   /\ n_fixed_steps' = FixedSteps(n_steps)
                   /\ n_outs' = Len(oi)
                   /\ outs_info' =
                          [ j \in 1..Len(oi) |-> IF j < first THEN NormOut(oi[j]) ELSE oi[j] ]
                   /\ caller_outputs_info' = AfterNormOuts(outputs_info, first)
                   /\ return_steps' = ReturnSteps(SubSeq(oi, 1, Min2(first, Len(oi))))
                   /\ warnings' =
                          SelectSeq(Interval(0, first - 1), LAMBDA i : OutWarns(At(oi, i)))
                   /\ IF bad = {}
                      THEN pc' = "normalized" /\ err' = err
                      ELSE Raise(ErrNoInitialState)
    /\ UNCHANGED << fn, sequences, outputs_info, non_sequences, n_steps, go_backwards,
                    scan_seqs, inner_seqs, inner_slices, actual_n_steps,
                    mit_sot_scan_inputs, mit_sot_inner_inputs, mit_sot_inner_slices,
                    mit_sot_inner_outputs, mit_sot_return_steps, mit_sot_tap_array,
                    mit_sot_rightOrder, sit_sot_scan_inputs, sit_sot_inner_inputs,
                    sit_sot_inner_slices, sit_sot_inner_outputs, sit_sot_return_steps,
                    sit_sot_rightOrder, nit_sot_inner_outputs, nit_sot_return_steps,
                    nit_sot_rightOrder, args, fn_calls, outputs, updates, dummy_f,
                    shared_scan_inputs, shared_inner_inputs, shared_inner_outputs,
                    other_shared_scan_args, inner_inputs, inner_outs, info, local_op,
                    scan_inputs, scan_outs, result >>

\* Step 2, the sequences (lines 396-465)
SliceSequences ==
    /\ pc = "normalized"
    /\ IF \E j \in 1..Len(seqs) : SeqTapsError(seqs[j])
       THEN /\ Raise(ErrSequenceTaps)
            /\ UNCHANGED << scan_seqs, inner_seqs, inner_slices >>
       ELSE /\ scan_seqs' = ScanSeqs(seqs, go_backwards)
            /\ inner_seqs' = InnerSeqs(seqs)
            /\ inner_slices' = InnerSlices(seqs)
            /\ pc' = "sliced"
            /\ err' = err
    /\ UNCHANGED << fn, sequences, outputs_info, non_sequences, n_steps, go_backwards,
                    caller_sequences, caller_outputs_info,
                    seqs, outs_info, non_seqs, n_fixed_steps, n_outs, return_steps,
                    warnings, actual_n_steps,
                    mit_sot_scan_inputs, mit_sot_inner_inputs, mit_sot_inner_slices,
                    mit_sot_inner_outputs, mit_sot_return_steps, mit_sot_tap_array,
                    mit_sot_rightOrder, sit_sot_scan_inputs, sit_sot_inner_inputs,
                    sit_sot_inner_slices, sit_sot_inner_outputs, sit_sot_return_steps,
                    sit_sot_rightOrder, nit_sot_inner_outputs, nit_sot_return_steps,
                    nit_sot_rightOrder, args, fn_calls, outputs, updates, dummy_f,
                    shared_scan_inputs, shared_inner_inputs, shared_inner_outputs,
                    other_shared_scan_args, inner_inputs, inner_outs, info, local_op,
                    scan_inputs, scan_outs, result >>

\* the trip count (lines 468-493)
ResolveSteps ==
    /\ pc = "sliced"
    /\ IF LengthsVec(scan_seqs, n_steps) = << >>
       THEN /\ Raise(ErrNoSteps)
            /\ UNCHANGED actual_n_steps
       ELSE /\ actual_n_steps' = ActualNSteps(LengthsVec(scan_seqs, n_steps), n_steps)
            /\ pc' = "resolved"
            /\ err' = err
    /\ UNCHANGED << fn, sequences, outputs_info, non_sequences, n_steps, go_backwards,
                    caller_sequences, caller_outputs_info,
                    seqs, outs_info, non_seqs, n_fixed_steps, n_outs, return_steps,
                    warnings, scan_seqs, inner_seqs, inner_slices,
                    mit_sot_scan_inputs, mit_sot_inner_inputs, mit_sot_inner_slices,
                    mit_sot_inner_outputs, mit_sot_return_steps, mit_sot_tap_array,
                    mit_sot_rightOrder, sit_sot_scan_inputs, sit_sot_inner_inputs,
                    sit_sot_inner_slices, sit_sot_inner_outputs, sit_sot_return_steps,
                    sit_sot_rightOrder, nit_sot_inner_outputs, nit_sot_return_steps,
                    nit_sot_rightOrder, args, fn_calls, outputs, updates, dummy_f,
                    shared_scan_inputs, shared_inner_inputs, shared_inner_outputs,
                    other_shared_scan_args, inner_inputs, inner_outs, info, local_op,
                    scan_inputs, scan_outs, result >>

\* Step 2, the outputs (lines 509-634)
ClassifyOutputs ==
    /\ pc = "resolved"
    /\ IF \E j \in 1..Len(outs_info) : IsMitSot(outs_info[j]) /\ FutureTaps(outs_info[j])
       THEN /\ Raise(ErrFutureTaps)
            /\ UNCHANGED << mit_sot_scan_inputs, mit_sot_inner_inputs, mit_sot_inner_slices,
                            mit_sot_return_steps, mit_sot_tap_array, mit_sot_rightOrder,
                            sit_sot_scan_inputs, sit_sot_inner_inputs, sit_sot_inner_slices,
                            sit_sot_return_steps, sit_sot_rightOrder >>
       ELSE /\ mit_sot_rightOrder' = MitSotRightOrder(outs_info)
            /\ mit_sot_tap_array' = MitSotTapArray(outs_info)
            /\ mit_sot_scan_inputs' = MitSotScanInputs(outs_info, actual_n_steps)
            /\ mit_sot_inner_inputs' = MitSotInnerInputs(outs_info)
            /\ mit_sot_inner_slices' = MitSotInnerSlices(outs_info)
            /\ mit_sot_return_steps' =
                   CategoryReturnSteps(MitSotRightOrder(outs_info), return_steps)
            /\ sit_sot_rightOrder' = SitSotRightOrder(outs_info)
            /\ sit_sot_scan_inputs' = SitSotScanInputs(outs_info, actual_n_steps)
            /\ sit_sot_inner_inputs' = SitSotInnerInputs(outs_info)
            /\ sit_sot_inner_slices' = SitSotInnerSlices(outs_info)
            /\ sit_sot_return_steps' =
                   CategoryReturnSteps(SitSotRightOrder(outs_info), return_steps)
            /\ pc' = "classified"
            /\ err' = err
    /\ UNCHANGED << fn, sequences, outputs_info, non_sequences, n_steps, go_backwards,
                    caller_sequences, caller_outputs_info,
                    seqs, outs_info, non_seqs, n_fixed_steps, n_outs, return_steps,
                    warnings, scan_seqs, inner_seqs, inner_slices, actual_n_steps,
                    mit_sot_inner_outputs, sit_sot_inner_outputs,
                    nit_sot_inner_outputs, nit_sot_return_steps,
                    nit_sot_rightOrder, args, fn_calls, outputs, updates, dummy_f,
                    shared_scan_inputs, shared_inner_inputs, shared_inner_outputs,
                    other_shared_scan_args, inner_inputs, inner_outs, info, local_op,
                    scan_inputs, scan_outs, result >>

\* Re-order args and apply fn (lines 636-683)
CallFn ==
    /\ pc = "classified"
    /\ args' = IF IsCollapsible(n_fixed_steps)
               THEN Args(inner_slices,
                         OrderedArgs(mit_sot_rightOrder, mit_sot_tap_array,
                                     mit_sot_inner_slices, sit_sot_rightOrder,
                                     sit_sot_inner_slices),
                         non_seqs)
               ELSE Args(inner_seqs,
                         OrderedArgs(mit_sot_rightOrder, mit_sot_tap_array,
                                     mit_sot_inner_inputs, sit_sot_rightOrder,
                                     sit_sot_inner_inputs),
                         non_seqs)
    /\ fn_calls' = fn_calls + 1
    /\ outputs' = FnOutputs(fn)
    /\ updates' = FnUpdates(fn)
    /\ pc' = "called"
    /\ UNCHANGED << err, fn, sequences, outputs_info, non_sequences, n_steps, go_backwards,
                    caller_sequences, caller_outputs_info,
                    seqs, outs_info, non_seqs, n_fixed_steps, n_outs, return_steps,
                    warnings, scan_seqs, inner_seqs, inner_slices, actual_n_steps,
                    mit_sot_scan_inputs, mit_sot_inner_inputs, mit_sot_inner_slices,
                    mit_sot_inner_outputs, mit_sot_return_steps, mit_sot_tap_array,
                    mit_sot_rightOrder, sit_sot_scan_inputs, sit_sot_inner_inputs,
                    sit_sot_inner_slices, sit_sot_inner_outputs, sit_sot_return_steps,
                    sit_sot_rightOrder, nit_sot_inner_outputs, nit_sot_return_steps,
                    nit_sot_rightOrder, dummy_f,
                    shared_scan_inputs, shared_inner_inputs, shared_inner_outputs,
                    other_shared_scan_args, inner_inputs, inner_outs, info, local_op,
                    scan_inputs, scan_outs, result >>

\* Step 3 (lines 689-707)
ReturnCollapsed ==
    /\ pc = "called"
    /\ IsCollapsible(n_fixed_steps)
    /\ outputs' = PadOutputs(outputs, return_steps)
    /\ result' = [outputs |-> CollapsedOutputs(PadOutputs(outputs, return_steps)),
                  updates |-> updates]
    /\ pc' = "done"
    /\ UNCHANGED << err, fn, sequences, outputs_info, non_sequences, n_steps, go_backwards,
                    caller_sequences, caller_outputs_info,
                    seqs, outs_info, non_seqs, n_fixed_steps, n_outs, return_steps,
                    warnings, scan_seqs, inner_seqs, inner_slices, actual_n_steps,
                    mit_sot_scan_inputs, mit_sot_inner_inputs, mit_sot_inner_slices,
                    mit_sot_inner_outputs, mit_sot_return_steps, mit_sot_tap_array,
                    mit_sot_rightOrder, sit_sot_scan_inputs, sit_sot_inner_inputs,
                    sit_sot_inner_slices, sit_sot_inner_outputs, sit_sot_return_steps,
                    sit_sot_rightOrder, nit_sot_inner_outputs, nit_sot_return_steps,
                    nit_sot_rightOrder, args, fn_calls, updates, dummy_f,
                    shared_scan_inputs, shared_inner_inputs, shared_inner_outputs,
                    other_shared_scan_args, inner_inputs, inner_outs, info, local_op,
                    scan_inputs, scan_outs >>

\* the count check placed ahead of the compilation of the probe: what Steps 4
\* and 5.0 would be if the outputs of fn were counted from outputs directly
CheckCountThenCompile ==
    /\ pc = "called"
    /\ ~IsCollapsible(n_fixed_steps)
    /\ IF OutputCountMismatch(DummyFunction(fn), n_outs, outs_info)
       THEN /\ Raise(ErrOutputCount)
            /\ UNCHANGED << n_outs, outs_info, dummy_f >>
       ELSE /\ dummy_f' = DummyFunction(fn)
            /\ n_outs' = IF outs_info = << >> THEN DummyFunction(fn).n_outputs ELSE n_outs
            /\ outs_info' = ProbedOutsInfo(DummyFunction(fn), outs_info)
            /\ pc' = "probed"
            /\ err' = err
    /\ UNCHANGED << fn, sequences, outputs_info, non_sequences, n_steps, go_backwards,
                    caller_sequences, caller_outputs_info,
                    seqs, non_seqs, n_fixed_steps, return_steps,
                    warnings, scan_seqs, inner_seqs, inner_slices, actual_n_steps,
                    mit_sot_scan_inputs, mit_sot_inner_inputs, mit_sot_inner_slices,
                    mit_sot_inner_outputs, mit_sot_return_steps, mit_sot_tap_array,
                    mit_sot_rightOrder, sit_sot_scan_inputs, sit_sot_inner_inputs,
                    sit_sot_inner_slices, sit_sot_inner_outputs, sit_sot_return_steps,
                    sit_sot_rightOrder, nit_sot_inner_outputs, nit_sot_return_steps,
                    nit_sot_rightOrder, args, fn_calls, outputs, updates,
                    shared_scan_inputs, shared_inner_inputs, shared_inner_outputs,
                    other_shared_scan_args, inner_inputs, inner_outs, info, local_op,
                    scan_inputs, scan_outs, result >>

\* Steps 4 and 5.0 (lines 725-763)
CompileDummy ==
    /\ pc = "called"
    /\ ~IsCollapsible(n_fixed_steps)
    /\ dummy_f' = DummyFunction(fn)
    /\ IF OutputCountMismatch(DummyFunction(fn), n_outs, outs_info)
       THEN /\ Raise(ErrOutputCount)
            /\ UNCHANGED << n_outs, outs_info >>
       ELSE /\ n_outs' = IF outs_info = << >> THEN DummyFunction(fn).n_outputs ELSE n_outs
            /\ outs_info' = ProbedOutsInfo(DummyFunction(fn), outs_info)
            /\ pc' = "probed"
            /\ err' = err
    /\ UNCHANGED << fn, sequences, outputs_info, non_sequences, n_steps, go_backwards,
                    caller_sequences, caller_outputs_info,
                    seqs, non_seqs, n_fixed_steps, return_steps,
                    warnings, scan_seqs, inner_seqs, inner_slices, actual_n_steps,
                    mit_sot_scan_inputs, mit_sot_inner_inputs, mit_sot_inner_slices,
                    mit_sot_inner_outputs, mit_sot_return_steps, mit_sot_tap_array,
                    mit_sot_rightOrder, sit_sot_scan_inputs, sit_sot_inner_inputs,
                    sit_sot_inner_slices, sit_sot_inner_outputs, sit_sot_return_steps,
                    sit_sot_rightOrder, nit_sot_inner_outputs, nit_sot_return_steps,
                    nit_sot_rightOrder, args, fn_calls, outputs, updates,
                    shared_scan_inputs, shared_inner_inputs, shared_inner_outputs,
                    other_shared_scan_args, inner_inputs, inner_outs, info, local_op,
                    scan_inputs, scan_outs, result >>

\* Steps 5.1 to 7 (lines 766-898)
Reassemble ==
    /\ pc = "probed"
    /\ mit_sot_inner_outputs' = InnerOutputs(outs_info, outputs, InMitSotOutputs)
    /\ sit_sot_inner_outputs' = InnerOutputs(outs_info, outputs, InSitSotOutputs)
    /\ nit_sot_inner_outputs' = InnerOutputs(outs_info, outputs, InNitSotOutputs)
    /\ nit_sot_rightOrder' = NitSotRightOrder(outs_info)
    /\ nit_sot_return_steps' = CategoryReturnSteps(NitSotRightOrder(outs_info), return_steps)
    /\ shared_scan_inputs' = SharedScanInputs(dummy_f)
    /\ shared_inner_inputs' = SharedInnerInputs(dummy_f)
    /\ shared_inner_outputs' = SharedInnerOutputs(dummy_f)
    /\ other_shared_scan_args' = OtherSharedScanArgs(dummy_f)
    /\ inner_inputs' = InnerInputs(inner_seqs, mit_sot_inner_inputs, sit_sot_inner_inputs,
                                   SharedInnerInputs(dummy_f), OtherSharedInnerArgs(dummy_f),
                                   OtherInnerArgs(non_seqs))
    /\ inner_outs' = InnerOuts(InnerOutputs(outs_info, outputs, InMitSotOutputs),
                               InnerOutputs(outs_info, outputs, InSitSotOutputs),
                               InnerOutputs(outs_info, outputs, InNitSotOutputs),
                               SharedInnerOutputs(dummy_f))
    /\ info' = Info(mit_sot_tap_array, Len(scan_seqs), Len(mit_sot_rightOrder),
                    Len(sit_sot_rightOrder), Len(SharedScanInputs(dummy_f)),
                    Len(NitSotRightOrder(outs_info)))
    /\ local_op' = "Scan"
    /\ pc' = "built"
    /\ UNCHANGED << err, fn, sequences, outputs_info, non_sequences, n_steps, go_backwards,
                    caller_sequences, caller_outputs_info,
                    seqs, outs_info, non_seqs, n_fixed_steps, n_outs, return_steps,
                    warnings, scan_seqs, inner_seqs, inner_slices, actual_n_steps,
                    mit_sot_scan_inputs, mit_sot_inner_inputs, mit_sot_inner_slices,
                    mit_sot_return_steps, mit_sot_tap_array,
                    mit_sot_rightOrder, sit_sot_scan_inputs, sit_sot_inner_inputs,
                    sit_sot_inner_slices, sit_sot_return_steps,
                    sit_sot_rightOrder, args, fn_calls, outputs, updates, dummy_f,
                    scan_inputs, scan_outs, result >>

\* Step 8 (lines 903-915)
ApplyScanOp ==
    /\ pc = "built"
    /\ scan_inputs' = ScanInputs(actual_n_steps, scan_seqs, mit_sot_scan_inputs,
                                 sit_sot_scan_inputs, shared_scan_inputs, info.n_nit_sot,
                                 other_shared_scan_args, OtherScanArgs(non_seqs))
    /\ scan_outs' = ScanOp(inner_outs, info, actual_n_steps)
    /\ pc' = "applied"
    /\ UNCHANGED << err, fn, sequences, outputs_info, non_sequences, n_steps, go_backwards,
                    caller_sequences, caller_outputs_info,
                    seqs, outs_info, non_seqs, n_fixed_steps, n_outs, return_steps,
                    warnings, scan_seqs, inner_seqs, inner_slices, actual_n_steps,
                    mit_sot_scan_inputs, mit_sot_inner_inputs, mit_sot_inner_slices,
                    mit_sot_inner_outputs, mit_sot_return_steps, mit_sot_tap_array,
                    mit_sot_rightOrder, sit_sot_scan_inputs, sit_sot_inner_inputs,
                    sit_sot_inner_slices, sit_sot_inner_outputs, sit_sot_return_steps,
                    sit_sot_rightOrder, nit_sot_inner_outputs, nit_sot_return_steps,
                    nit_sot_rightOrder, args, fn_calls, outputs, updates, dummy_f,
                    shared_scan_inputs, shared_inner_inputs, shared_inner_outputs,
                    other_shared_scan_args, inner_inputs, inner_outs, info, local_op,
                    result >>

\* the three calls of remove_dimensions (lines 937-954), in rightOrder order
ScanOutList ==
    LET n_mit_sot == Len(mit_sot_rightOrder)
        n_sit_sot == Len(sit_sot_rightOrder)
        n_nit_sot == Len(nit_sot_rightOrder)
        mit_sot_outs == remove_dimensions(Part(scan_outs, 0, n_mit_sot),
                            mit_sot_return_steps,
                            [ j \in 1..Len(mit_sot_tap_array) |->
                                Abs(SeqMin(mit_sot_tap_array[j])) ])
        sit_sot_outs == remove_dimensions(Part(scan_outs, n_mit_sot, n_sit_sot),
                            sit_sot_return_steps, [ j \in 1..n_sit_sot |-> 1 ])
        nit_sot_outs == remove_dimensions(
                            Part(scan_outs, n_mit_sot + n_sit_sot, n_nit_sot),
                            nit_sot_return_steps, << >>)
    IN  mit_sot_outs \o sit_sot_outs \o nit_sot_outs

\* Steps 9 and 10 (lines 921-976)
Unpack ==
    /\ pc = "applied"
    /\ LET rightOrder == RightOrder(mit_sot_rightOrder, sit_sot_rightOrder,
                                    nit_sot_rightOrder)
           offset == Len(rightOrder)
       IN  IF ScatterFails(rightOrder)
           THEN /\ Raise(ErrScatter)
                /\ UNCHANGED result
           ELSE /\ result' =
                      [outputs |-> ScanOutput(Scatter(rightOrder, ScanOutList)),
                       updates |-> UpdateMap(shared_scan_inputs,
                                             Part(scan_outs, offset, info.n_shared_outs))]
                /\ pc' = "done"
                /\ err' = err
    /\ UNCHANGED << fn, sequences, outputs_info, non_sequences, n_steps, go_backwards,
                    caller_sequences, caller_outputs_info,
                    seqs, outs_info, non_seqs, n_fixed_steps, n_outs, return_steps,
                    warnings, scan_seqs, inner_seqs, inner_slices, actual_n_steps,
                    mit_sot_scan_inputs, mit_sot_inner_inputs, mit_sot_inner_slices,
                    mit_sot_inner_outputs, mit_sot_return_steps, mit_sot_tap_array,
                    mit_sot_rightOrder, sit_sot_scan_inputs, sit_sot_inner_inputs,
                    sit_sot_inner_slices, sit_sot_inner_outputs, sit_sot_return_steps,
                    sit_sot_rightOrder, nit_sot_inner_outputs, nit_sot_return_steps,
                    nit_sot_rightOrder, args, fn_calls, outputs, updates, dummy_f,
                    shared_scan_inputs, shared_inner_inputs, shared_inner_outputs,
                    other_shared_scan_args, inner_inputs, inner_outs, info, local_op,
                    scan_inputs, scan_outs >>

Next ==
    \/ Normalize
    \/ SliceSequences
    \/ ResolveSteps
    \/ ClassifyOutputs
    \/ CallFn
    \/ ReturnCollapsed
    \/ CompileDummy
    \/ Reassemble
    \/ ApplyScanOp
    \/ Unpack

----------------------------------------------------------------------------
(* The calls that are checked *)

\* the lists of at most n entries drawn from E
ListsUpTo(E, n) == UNION { [1..m -> E] : m \in 0..n }

NonSeq(i) == [id |-> i, shared |-> FALSE]

\* non_sequences Argument1 .. Argumentn
NonSeqLists(n) == { ArgList([ j \in 1..m |-> NonSeq(j) ]) : m \in 0..n }

\* fn as scan sees it: how many outputs it returns, which of them are no
\* tensors, and the shared variables it uses (cell 1 with an update rule,
\* cell 2 without).  PlainFn uses no shared variable and returns tensors.
PlainFn(m) == [nouts |-> m, nontensor |-> {}, shared |-> << >>]

StatefulFn(m) ==
    [nouts |-> m,
     nontensor |-> IF m > 0 THEN {0} ELSE {},
     shared |-> << [cell |-> 2, update |-> FALSE], [cell |-> 1, update |-> TRUE] >>]

\* a fn that uses four shared variables, cells 3 and 1 with an update rule
SharedFn(m) ==
    [nouts |-> m,
     nontensor |-> {},
     shared |-> << [cell |-> 3, update |-> TRUE], [cell |-> 2, update |-> FALSE],
                   [cell |-> 1, update |-> TRUE], [cell |-> 4, update |-> FALSE] >>]

Fns(counts) == { PlainFn(m) : m \in counts } \cup { StatefulFn(m) : m \in counts }

\* the state scan() starts in, for a call drawn from the given sets
InitCall(F, S, O, N, K, B) ==
    /\ fn \in F
    /\ sequences \in S
    /\ outputs_info \in O
    /\ non_sequences \in N
    /\ n_steps \in K
    /\ go_backwards \in B
    /\ caller_sequences = sequences
    /\ caller_outputs_info = outputs_info
    /\ pc = "start"
    /\ err = ""
    /\ seqs = << >>
    /\ outs_info = << >>
    /\ non_seqs = << >>
    /\ n_fixed_steps = [known |-> FALSE, val |-> 0]
    /\ n_outs = 0
    /\ return_steps = EmptyDict
    /\ warnings = << >>
    /\ scan_seqs = << >>
    /\ inner_seqs = << >>
    /\ inner_slices = << >>
    /\ actual_n_steps = 0
    /\ mit_sot_scan_inputs = << >>
    /\ mit_sot_inner_inputs = << >>
    /\ mit_sot_inner_slices = << >>
    /\ mit_sot_inner_outputs = << >>
    /\ mit_sot_return_steps = EmptyDict
    /\ mit_sot_tap_array = << >>
    /\ mit_sot_rightOrder = << >>
    /\ sit_sot_scan_inputs = << >>
    /\ sit_sot_inner_inputs = << >>
    /\ sit_sot_inner_slices = << >>
    /\ sit_sot_inner_outputs = << >>
    /\ sit_sot_return_steps = EmptyDict
    /\ sit_sot_rightOrder = << >>
    /\ nit_sot_inner_outputs = << >>
    /\ nit_sot_return_steps = EmptyDict
    /\ nit_sot_rightOrder = << >>
    /\ args = << >>
    /\ fn_calls = 0
    /\ outputs = << >>
    /\ updates = EmptyDict
    /\ dummy_f = [compiled |-> FALSE, n_outputs |-> 0, expanded_inputs |-> << >>]
    /\ shared_scan_inputs = << >>
    /\ shared_inner_inputs = << >>
    /\ shared_inner_outputs = << >>
    /\ other_shared_scan_args = << >>
    /\ inner_inputs = << >>
    /\ inner_outs = << >>
    /\ info = Info(<< >>, 0, 0, 0, 0, 0)
    /\ local_op = "none"
    /\ scan_inputs = << >>
    /\ scan_outs = << >>
    /\ result = NoResult

\* The entries of outputs_info of the general specification: every form the
\* normalisation tells apart, past taps, a tap of 0 and a future tap
OutEntries ==
    { OutNone, OutVar,
      OutDict(TRUE, TapsAbsent, 2),
      OutDict(TRUE, TapsNone, 1),
      OutDict(FALSE, TapsNone, 0),
      OutDict(TRUE, TapsList(<< >>), 0),
      OutDict(FALSE, TapsList(<< -1 >>), 0),
      OutDict(TRUE, TapsList(<< -2, -1 >>), 0),
      OutDict(TRUE, TapsList(<< 0 >>), 0),
      OutDict(TRUE, TapsList(<< -1, 1 >>), 0) }

StepCounts ==
    { NStepsNone, NStepsInt(1), NStepsInt(-1), NStepsConst(1),
      NStepsInt(MaxSteps), NStepsVar(1) }

Init ==
    InitCall(Fns(0..MaxOuts),
             { ArgNone, ArgSingle(SeqVar(MaxLen)) },
             { ArgNone, ArgSingle(OutVar) }
                 \cup { ArgList(l) : l \in ListsUpTo(OutEntries, MaxOuts) },
             { ArgNone },
             StepCounts,
             { FALSE })

Spec == Init /\ [][Next]_vars

\* Calls that differ in the order and the taps of their arguments, and the
\* call of the docstring of scan
ArgsSeqEntries ==
    { SeqVar(MaxLen),
      SeqDict(MaxLen, TapsList(<< -1, 1 >>)),
      SeqDict(MaxLen, TapsScalar(1)),
      SeqDict(MaxLen, TapsAbsent) }

ArgsOutEntries ==
    { OutNone, OutVar,
      OutDict(TRUE, TapsList(<< -1, -2 >>), 0),
      OutDict(TRUE, TapsNone, 0) }

\* sequences = [dict(input = Sequence1, taps = [-3, 2, -1]), Sequence2,
\*              dict(input = Sequence3, taps = 3)]
DocSequences ==
    ArgList(<< SeqDict(8, TapsList(<< -3, 2, -1 >>)), SeqVar(8), SeqDict(8, TapsScalar(3)) >>)

\* outputs_info = [dict(initial = Output1, taps = [-3, -5]),
\*                 dict(initial = Output2, taps = None), Output3]
DocOutputsInfo ==
    ArgList(<< OutDict(TRUE, TapsList(<< -3, -5 >>), 0), OutDict(TRUE, TapsNone, 0), OutVar >>)

\* non_sequences = [Argument1, Argument2]
DocNonSequences == ArgList(<< NonSeq(1), NonSeq(2) >>)

InitArgs ==
    \/ /\ InitCall(Fns(0..MaxOuts),
                   { ArgList(l) : l \in ListsUpTo(ArgsSeqEntries, MaxSeqs) },
                   { ArgList(l) : l \in ListsUpTo(ArgsOutEntries, MaxOuts) },
                   NonSeqLists(MaxNonSeqs),
                   { NStepsNone, NStepsInt(1), NStepsInt(MaxSteps) },
                   { FALSE })
       /\ fn = PlainFn(Len(outputs_info.val))
    \/ InitCall({ PlainFn(3) }, { DocSequences }, { DocOutputsInfo }, { DocNonSequences },
                { NStepsNone, NStepsInt(1) }, { FALSE })

SpecArgs == InitArgs /\ [][Next]_vars

\* Calls that differ in the lengths of their sequences and in n_steps
StepsSeqEntries ==
    { SeqVar(L) : L \in 0..MaxLen } \cup { SeqDict(L, TapsList(<< -1, 1 >>)) : L \in 0..MaxLen }

InitSteps ==
    InitCall({ PlainFn(0), PlainFn(1) },
             { ArgList(l) : l \in ListsUpTo(StepsSeqEntries, MaxSeqs) },
             { ArgNone },
             { ArgNone },
             { NStepsNone, NStepsVar(MaxSteps) }
                 \cup { NStepsInt(n) : n \in (-MaxSteps)..MaxSteps },
             { FALSE })

SpecSteps == InitSteps /\ [][Next]_vars

\* Calls that differ in the return_steps of their outputs and in n_steps
ReturnOutEntries ==
    UNION { { OutDict(TRUE, TapsList(<< -1 >>), rs),
              OutDict(TRUE, TapsList(<< -2, -1 >>), rs),
              OutDict(FALSE, TapsAbsent, rs) } : rs \in 0..MaxReturnSteps }

InitReturn ==
    /\ InitCall(Fns(0..MaxOuts),
                { ArgNone },
                { ArgList(l) : l \in ListsUpTo(ReturnOutEntries, MaxOuts) },
                { ArgNone },
                { NStepsInt(n) : n \in 0..MaxSteps },
                { FALSE })
    /\ fn = PlainFn(Len(outputs_info.val))

SpecReturn == InitReturn /\ [][Next]_vars

\* Calls that differ in the form of the taps of their sequences, in the
\* direction and in the kind of n_steps; no outputs_info
SeqsEntries ==
    { SeqVar(MaxLen),
      SeqDict(MaxLen, TapsAbsent),
      SeqDict(MaxLen, TapsNone),
      SeqDict(MaxLen, TapsScalar(1)),
      SeqDict(MaxLen, TapsList(<< -1 >>)),
      SeqDict(MaxLen, TapsList(<< -2, -1 >>)),
      SeqDict(MaxLen, TapsList(<< -1, 1 >>)),
      SeqDict(MaxLen, TapsList(<< >>)) }

SeqsStepCounts ==
    { NStepsNone, NStepsInt(1), NStepsInt(-1), NStepsInt(-MaxSteps), NStepsVar(MaxSteps),
      NStepsVar(1), NStepsFloat(1, 7), NStepsNaN, NStepsFloatVar }

InitSeqs ==
    InitCall({ PlainFn(1) },
             { ArgNone, ArgSingle(SeqDict(MaxLen, TapsNone)) }
                 \cup { ArgList(l) : l \in ListsUpTo(SeqsEntries, MaxSeqs) },
             { ArgNone },
             { ArgNone },
             SeqsStepCounts,
             BOOLEAN)

SpecSeqs == InitSeqs /\ [][Next]_vars

\* Calls that differ in the shared variables fn uses and in the
\* non_sequences, one of which may be a shared variable
SharedOutEntries ==
    { OutNone, OutVar,
      OutDict(TRUE, TapsList(<< -2, -1 >>), 0),
      OutDict(FALSE, TapsNone, 0) }

SharedNonSeqLists ==
    NonSeqLists(MaxNonSeqs)
        \cup { ArgList(<< [id |-> 9, shared |-> TRUE], NonSeq(2), NonSeq(1) >>) }

InitShared ==
    /\ InitCall({ PlainFn(m) : m \in 0..MaxOuts } \cup { StatefulFn(m) : m \in 0..MaxOuts }
                    \cup { SharedFn(m) : m \in 0..MaxOuts },
                { ArgNone, ArgSingle(SeqVar(MaxLen)) },
                { ArgList(l) : l \in ListsUpTo(SharedOutEntries, MaxOuts) },
                SharedNonSeqLists,
                { NStepsInt(1), NStepsVar(MaxSteps) },
                { FALSE })
    /\ fn.nouts = Len(outputs_info.val)

SpecShared == InitShared /\ [][Next]_vars

\* Calls that can end in each of the ways scan() can end: with a result, on
\* either path, or with the error of each of its raise statements
ErrorsSeqEntries ==
    { SeqVar(MaxLen), SeqDict(MaxLen, TapsList(<< >>)) }

ErrorsOutEntries ==
    { OutNone, OutVar,
      OutDict(FALSE, TapsList(<< -1 >>), 0),
      OutDict(FALSE, TapsList(<< -2, -1 >>), 0),
      OutDict(TRUE, TapsList(<< -2, -1 >>), 0),
      OutDict(TRUE, TapsList(<< -1, 1 >>), 0) }

ErrorsStepCounts ==
    { NStepsNone, NStepsInt(1), NStepsInt(MaxSteps), NStepsVar(1),
      NStepsFloat(1, 7), NStepsNaN, NStepsFloatVar }

InitErrors ==
    InitCall(Fns(0..MaxOuts),
             { ArgNone } \cup { ArgSingle(e) : e \in ErrorsSeqEntries },
             { ArgNone } \cup { ArgList(l) : l \in ListsUpTo(ErrorsOutEntries, MaxOuts) },
             { ArgNone },
             ErrorsStepCounts,
             { FALSE })

SpecErrors == InitErrors /\ [][Next]_vars

----------------------------------------------------------------------------
(* What the claims are stated over *)

\* outputs_info as the caller wrote it, as a list
GivenOuts == IF outputs_info.form = "none" THEN << >> ELSE outputs_info.val

\* the return_steps the caller wrote for the output at position pos
GivenReturnSteps(pos) ==
    IF pos < Len(GivenOuts) /\ At(GivenOuts, pos).form = "dict"
    THEN At(GivenOuts, pos).return_steps
    ELSE 0

\* n_steps is a compile-time constant equal to 1 or -1
ConstantSingleStep == n_steps.kind \in {"int", "const"} /\ n_steps.val \in {1, -1}

\* the call got as far as building the Scan op
OnScanPath == local_op = "Scan"

\* the normalisation of outputs_info ran to its end
OutputsNormalized == pc # "start" /\ err # ErrNoInitialState

\* the classification of the outputs ran, to its end or to its error
OutputsClassified ==
    \/ pc \in {"classified", "called", "probed", "built", "applied", "done"}
    \/ pc = "raised" /\ err \in {ErrFutureTaps, ErrOutputCount, ErrScatter}

\* fn has been called
FnCalled == fn_calls > 0

\* the arguments fn was called with that come from the output at position i
ArgsOfOutput(i) ==
    SelectSeq(args, LAMBDA a : a.kind \in {"out_ph", "init", "init_at"} /\ a.src = i)

\* the trip count has been resolved
StepsResolved ==
    \/ pc \in {"resolved", "classified", "called", "probed", "built", "applied", "done"}
    \/ pc = "raised" /\ err \in {ErrFutureTaps, ErrOutputCount, ErrScatter}

\* the lengths of the windowed sequences handed to the Scan op
WindowLengths == [ j \in 1..Len(scan_seqs) |-> Len(scan_seqs[j].idx) ]

\* what an argument of fn stands for: the tap k of sequence src, the tap k
\* of output src, or the non-sequence src
ArgKey(a) ==
    CASE a.kind = "seq_ph" -> Var("seq", a.src, a.k)
      [] a.kind = "seq_at" -> Var("seq", a.src, a.k + SeqMin(At(seqs, a.src).taps.val))
      [] a.kind = "out_ph" -> Var("out", a.src, a.k)
      [] a.kind = "init" -> Var("out", a.src, -1)
      [] a.kind = "init_at" ->
             Var("out", a.src, a.k - Abs(SeqMin(At(outs_info, a.src).taps.val)))
      [] OTHER -> Var("nonseq", a.src, 0)

ArgKeys == [ j \in 1..Len(args) |-> ArgKey(args[j]) ]

\* one entry per tap of each of the descriptors ds that has taps, in the
\* order of ds and of the taps
TapKeys(group, ds) ==
    Flatten([ i \in 1..Len(ds) |->
        IF TapsTruthy(ds[i].taps)
        THEN [ j \in 1..Len(ds[i].taps.val) |-> Var(group, i - 1, ds[i].taps.val[j]) ]
        ELSE << >> ])

GivenNonSeqs == IF non_sequences.form = "none" THEN << >> ELSE non_sequences.val

----------------------------------------------------------------------------
(* C1 *)

\* C1: fn is called with one argument per tap of each sequence (sequences in
\* the given order, taps in the order listed), then one argument per tap of
\* each output that has taps (in outputs_info order whatever the category,
\* taps in the order listed), then the non_sequences in the given order;
\* outputs without taps contribute no argument.
C1_ArgumentOrder ==
    FnCalled =>
        ArgKeys = TapKeys("seq", seqs)
                    \o TapKeys("out", SubSeq(outs_info, 1, Len(GivenOuts)))
                    \o [ j \in 1..Len(GivenNonSeqs) |-> Var("nonseq", GivenNonSeqs[j].id, 0) ]

\* fn was called for two sequences with taps, a sit_sot output declared
\* before a mit_sot output, and two non_sequences
C1_Witness ==
    /\ pc = "called"
    /\ Len(seqs) = 2 /\ Len(inner_seqs) = 3
    /\ sit_sot_rightOrder = << 0 >>
    /\ mit_sot_rightOrder = << 1 >>
    /\ Len(GivenNonSeqs) = 2
    /\ Len(args) = 8

----------------------------------------------------------------------------
(* C2 *)

\* C2 as claimed: with n_steps supplied and at least one sequence the trip
\* count is the minimum of n_steps and the lengths of the windowed
\* sequences; with no n_steps it is the minimum of the lengths.
C2_TripCountIsMinimum ==
    (StepsResolved /\ scan_seqs # << >>) =>
        actual_n_steps = SeqMin(WindowLengths
                                  \o (IF n_steps.kind = "None" THEN << >> ELSE << n_steps.val >>))

\* C2 as amended: a supplied n_steps is the trip count whatever the lengths
\* of the sequences; with no n_steps the trip count is the minimum of the
\* lengths of the windowed sequences.
C2_SuppliedStepsWin ==
    StepsResolved =>
        IF n_steps.kind = "None"
        THEN actual_n_steps = SeqMin(WindowLengths)
        ELSE actual_n_steps = n_steps.val

\* n_steps was supplied and exceeds the length of a windowed sequence
C2_Witness ==
    /\ pc = "resolved"
    /\ n_steps = NStepsInt(MaxSteps)
    /\ Len(scan_seqs) = 2
    /\ \E j \in 1..Len(scan_seqs) : Len(scan_seqs[j].idx) < actual_n_steps

----------------------------------------------------------------------------
(* C3 *)

\* C3: when n_steps is a compile-time constant equal to 1 or -1, the Scan op
\* is never built nor applied and the dummy function never compiled; the call
\* returns the outputs and updates of the one invocation of fn on the actual
\* slices, each tensor output at position pos with a leading axis of length 1
\* added unless the return_steps of pos is 1.
C3_SingleStepReturnsDirectInvocation ==
    ConstantSingleStep =>
        /\ local_op = "none"
        /\ ~dummy_f.compiled
        /\ scan_inputs = << >> /\ scan_outs = << >>
        /\ pc = "done" =>
            /\ fn_calls = 1
            /\ \A j \in 1..Len(args) : args[j].kind \in {"seq_at", "init", "init_at", "nonseq"}
            /\ DOMAIN result.updates =
                   { fn.shared[j].cell : j \in { x \in 1..Len(fn.shared) : fn.shared[x].update } }
            /\ \A c \in DOMAIN result.updates :
                   result.updates[c] = Direct(Out("update", c, TRUE))
            /\ Len(result.outputs.vals) = fn.nouts
            /\ \A j \in 1..Len(result.outputs.vals) :
                   LET v == result.outputs.vals[j]
                       tensor == (j - 1) \notin fn.nontensor
                   IN  /\ v.via = "fn"
                       /\ v.out = Out("fnout", j - 1, tensor)
                       /\ v.padleft <=> (tensor /\ GivenReturnSteps(j - 1) # 1)

\* a backward single step returned two tensors, the first with return_steps
\* 1 and so without the added axis, the second with it
C3_Witness ==
    /\ pc = "done"
    /\ n_steps = NStepsInt(-1)
    /\ Len(result.outputs.vals) = 2
    /\ GivenReturnSteps(0) = 1
    /\ result.outputs.vals[1].out.tensor /\ ~result.outputs.vals[1].padleft
    /\ result.outputs.vals[2].padleft

----------------------------------------------------------------------------
(* C4 *)

\* C4: after a successful call that went through the Scan op with n declared
\* outputs, the returned list has n entries, the entry at position i is the
\* result of output i, and rightOrder is a bijection onto 0..n-1.
C4_ReturnedInOutputsInfoOrder ==
    (pc = "done" /\ OnScanPath) =>
        LET ro == RightOrder(mit_sot_rightOrder, sit_sot_rightOrder, nit_sot_rightOrder)
        IN  /\ Len(ro) = n_outs
            /\ Range(ro) = 0..(n_outs - 1)
            /\ Len(result.outputs.vals) = n_outs
            /\ \A j \in 1..Len(result.outputs.vals) :
                   /\ result.outputs.vals[j].out.kind = "fnout"
                   /\ result.outputs.vals[j].out.pos = j - 1

----------------------------------------------------------------------------
(* C5 *)

\* C5: every normalized entry of outputs_info is in exactly one of sit_sot,
\* mit_sot and nit_sot, the same in both classification passes: its inner
\* output is in the list of the category whose rightOrder holds its position,
\* and n_sit_sot + n_mit_sot + n_nit_sot is the number of outputs.
C5_EveryOutputInOneCategory ==
    OnScanPath =>
        /\ Len(mit_sot_rightOrder) + Len(sit_sot_rightOrder) + Len(nit_sot_rightOrder) = n_outs
        /\ \A i \in 0..(n_outs - 1) :
               Cardinality({ c \in {"mit", "sit", "nit"} :
                   i \in Range(CASE c = "mit" -> mit_sot_rightOrder
                                 [] c = "sit" -> sit_sot_rightOrder
                                 [] OTHER -> nit_sot_rightOrder) }) = 1
        /\ [ j \in 1..Len(mit_sot_inner_outputs) |-> mit_sot_inner_outputs[j].pos ]
               = mit_sot_rightOrder
        /\ [ j \in 1..Len(sit_sot_inner_outputs) |-> sit_sot_inner_outputs[j].pos ]
               = sit_sot_rightOrder
        /\ [ j \in 1..Len(nit_sot_inner_outputs) |-> nit_sot_inner_outputs[j].pos ]
               = nit_sot_rightOrder

----------------------------------------------------------------------------
(* C7 *)

\* C7: the outputs scan returns are a single value when there is one output,
\* a list in outputs_info order when there are several and None when there is
\* none, on the Scan op path and on the single-step path alike.
C7_ShapeOfReturnedOutputs ==
    pc = "done" =>
        /\ Len(outputs) = 1 => result.outputs.form = "single"
        /\ Len(outputs) = 0 => result.outputs.form = "None"
        /\ Len(outputs) > 1 =>
               /\ result.outputs.form = "list"
               /\ Len(result.outputs.vals) = Len(outputs)
               /\ \A j \in 1..Len(result.outputs.vals) :
                      /\ result.outputs.vals[j].out.kind = "fnout"
                      /\ result.outputs.vals[j].out.pos = j - 1

----------------------------------------------------------------------------
(* C8 *)

----------------------------------------------------------------------------
(* C10 *)

\* C10: the classification of the outputs fails with the future-taps error if
\* and only if some output has a tap list other than [-1] with a tap greater
\* than 0; lists with 0 or only negative taps are accepted.
C10_FutureTapsRejected ==
    OutputsClassified =>
        ((pc = "raised" /\ err = ErrFutureTaps)
            <=> \E i \in 1..Len(GivenOuts) :
                    /\ GivenOuts[i].form = "dict"
                    /\ GivenOuts[i].taps.form = "list"
                    /\ GivenOuts[i].taps.val # << -1 >>
                    /\ \E j \in 1..Len(GivenOuts[i].taps.val) : GivenOuts[i].taps.val[j] > 0)

\* an output with the tap list [0] was classified, as mit_sot, after one
\* whose list is [-2, -1]
C10_Witness ==
    /\ pc = "classified"
    /\ Len(GivenOuts) = 2
    /\ GivenOuts[1].taps = TapsList(<< -2, -1 >>)
    /\ GivenOuts[2].taps = TapsList(<< 0 >>)
    /\ mit_sot_rightOrder = << 0, 1 >>

----------------------------------------------------------------------------
(* C6 *)

\* the value returned for the output at position i
Returned(i) == At(result.outputs.vals, i)

\* C6: a recurrent output is returned as the Scan op's buffer without its
\* padding (1 entry for sit_sot, |min(taps)| for mit_sot) when return_steps
\* is omitted or 0, as the last K entries of that computed history, none of
\* them padding, when return_steps = K > 1, and as the last entry without its
\* leading axis when return_steps = 1; a nit_sot buffer is returned whole
\* unless return_steps is set.
C6_ReturnedHistory ==
    (pc = "done" /\ OnScanPath) =>
        \A i \in 0..(Len(GivenOuts) - 1) :
            LET e == At(GivenOuts, i)
                K == e.return_steps
                pad == IF IsSitSot(e) THEN 1
                       ELSE IF IsMitSot(e) THEN Abs(SeqMin(e.taps.val)) ELSE 0
                history == Interval(pad, pad + Abs(actual_n_steps))
            IN  /\ Returned(i).out = Out("fnout", i, TRUE)
                /\ K = 0 => Returned(i).idx = history /\ Returned(i).axis
                /\ (K > 1 /\ pad > 0) =>
                       /\ Returned(i).idx = SliceFrom(history, -K)
                       /\ \A x \in Range(Returned(i).idx) : x >= pad
                       /\ Returned(i).axis
                /\ K = 1 =>
                       /\ Returned(i).idx = SliceFrom(Interval(0, pad + Abs(actual_n_steps)), -1)
                       /\ ~Returned(i).axis

----------------------------------------------------------------------------
(* C9 *)

\* the call is the one of the docstring
IsDocCall ==
    /\ sequences = DocSequences
    /\ outputs_info = DocOutputsInfo
    /\ non_sequences = DocNonSequences

\* C9: for the call of the docstring fn gets exactly the ten arguments
\* Sequence1[t-3], Sequence1[t+2], Sequence1[t-1], Sequence2[t],
\* Sequence3[t+3], Output1[t-3], Output1[t-5], Output3[t-1], Argument1,
\* Argument2: the output declared with taps = None contributes none.
C9_DocstringArguments ==
    (IsDocCall /\ FnCalled) =>
        ArgKeys = << Var("seq", 0, -3), Var("seq", 0, 2), Var("seq", 0, -1),
                     Var("seq", 1, 0), Var("seq", 2, 3),
                     Var("out", 0, -3), Var("out", 0, -5), Var("out", 2, -1),
                     Var("nonseq", 1, 0), Var("nonseq", 2, 0) >>

----------------------------------------------------------------------------
(* C11 *)

\* no placeholder and no slice has been made yet, and fn has not been called
NothingBuilt ==
    /\ fn_calls = 0
    /\ scan_seqs = << >> /\ inner_seqs = << >> /\ inner_slices = << >>
    /\ mit_sot_inner_inputs = << >> /\ sit_sot_inner_inputs = << >>
    /\ mit_sot_scan_inputs = << >> /\ sit_sot_scan_inputs = << >>
    /\ args = << >> /\ ~dummy_f.compiled /\ local_op = "none"

\* the entry is a dict with a non-empty list of taps and no initial state
TapsWithoutInitial(e) ==
    e.form = "dict" /\ ~e.initial /\ e.taps.form = "list" /\ e.taps.val # << >>

----------------------------------------------------------------------------
(* C12 *)

\* nothing tells the number of steps: no windowed sequence and no n_steps
NothingGivesSteps == scan_seqs = << >> /\ n_steps.kind \in {"None", "nan"}

\* C12: a call in which no sequence contributes a windowed slice and n_steps
\* is None, NaN or infinite never gets past the resolution of the trip count,
\* where it fails with the no-steps error; that error is never raised when a
\* sequence contributes a slice or a usable n_steps is given.
C12_NoStepsRaise ==
    /\ NothingGivesSteps => pc \in {"start", "normalized", "sliced", "raised"}
    /\ (NothingGivesSteps /\ pc = "raised"
           /\ err \notin {ErrIntConversion, ErrNStepsDtype, ErrNoInitialState, ErrSequenceTaps})
          => err = ErrNoSteps
    /\ err = ErrNoSteps => NothingGivesSteps

\* the error is raised for a call that supplies a sequence, one that
\* contributes no slice
C12_Witness ==
    /\ pc = "raised" /\ err = ErrNoSteps
    /\ Len(seqs) = 1
    /\ scan_seqs = << >>

----------------------------------------------------------------------------
(* C13 *)

\* C13: a call whose n_steps is given and not of an integral type (a Python
\* float with a fraction, a scalar of a float dtype) fails in step 1 with
\* the n_steps error; its n_steps is never truncated to an integer and never
\* makes the call a single-step call.
C13_NonIntegralStepsRaise ==
    (n_steps.kind \in {"float", "floatvar"} /\ pc # "start") =>
        /\ pc = "raised"
        /\ err = ErrNStepsDtype
        /\ ~IsCollapsible(n_fixed_steps)
        /\ NothingBuilt

----------------------------------------------------------------------------
(* C14 *)

\* outputs_info is not empty and fn returns another number of outputs
OutputsMiscounted == GivenOuts # << >> /\ fn.nouts # Len(GivenOuts)

\* C14: for every n_steps, a call whose outputs_info is not empty and whose
\* fn returns a number of outputs other than the number of entries fails
\* with an error once fn has been called and returns nothing; with an empty
\* outputs_info the number of outputs of fn becomes n_outs and every output
\* is a nit_sot.
C14_OutputCountChecked ==
    /\ (OutputsMiscounted /\ FnCalled /\ pc # "called") =>
           /\ pc = "raised"
           /\ result = NoResult
    /\ (GivenOuts = << >> /\ OnScanPath) =>
           /\ n_outs = fn.nouts
           /\ nit_sot_rightOrder = Interval(0, fn.nouts)
           /\ mit_sot_rightOrder = << >> /\ sit_sot_rightOrder = << >>
           /\ Len(nit_sot_inner_outputs) = fn.nouts

----------------------------------------------------------------------------
(* C15 *)

\* the entries of the source that tap k of a sequence of length L with the
\* given taps stands for at steps 0, 1, .. of a forward run
ForwardWindow(sq) == Window(At(seqs, sq.src).len, At(seqs, sq.src).taps.val, sq.k, FALSE)

\* exactly one of go_backwards and n_steps < 0 holds
RunsBackwards == go_backwards # (n_steps.kind # "None" /\ n_steps.val < 0)

\* the entries of the source in the order the call asks for
WindowInOrder(sq) ==
    IF RunsBackwards THEN Reverse(ForwardWindow(sq)) ELSE ForwardWindow(sq)

\* the window of the sequence starts where its first tap-shifted entry is:
\* the slice fn gets in a single-step call can be compared with it
PlainWindow(sq) ==
    LET taps == At(seqs, sq.src).taps.val
    IN  SeqMax(taps) >= 0 /\ ~(SeqMax(taps) = SeqMin(taps) /\ SeqMax(taps) # 0)

\* C15: the windowed sequences are consumed last entry first exactly when
\* one of go_backwards and n_steps < 0 holds: by the Scan op on its path, and
\* by the one call of fn of a single-step call, which then gets the entry a
\* run in that direction starts with.
C15_DirectionOfSequences ==
    /\ (pc \in {"applied", "done"} /\ OnScanPath) =>
           \A j \in 1..Len(scan_seqs) :
               ScanOpSeqs(scan_seqs, actual_n_steps)[j] = WindowInOrder(scan_seqs[j])
    /\ (pc = "done" /\ ~OnScanPath) =>
           \A j \in 1..Len(scan_seqs) :
               (PlainWindow(scan_seqs[j]) /\ ForwardWindow(scan_seqs[j]) # << >>) =>
                   inner_slices[j].k = WindowInOrder(scan_seqs[j])[1]

----------------------------------------------------------------------------
(* C16 *)

\* the wrapping of the sequences ran to its end
SequencesNormalized == pc # "start" /\ err \notin {ErrIntConversion, ErrNStepsDtype}

\* the slicing of the sequences ran to its end
SequencesSliced == SequencesNormalized /\ pc # "normalized" /\ err # ErrSequenceTaps

\* C16: after the wrapping every sequence has a non-empty list of taps ([0]
\* for a bare variable, for a dict without 'taps' and for taps None, a
\* one-element list for a scalar tap), and once sliced every supplied
\* sequence contributes a placeholder for fn and a window for the Scan op.
C16_SequenceTapsNonEmpty ==
    /\ SequencesNormalized =>
           \A j \in 1..Len(seqs) :
               /\ seqs[j].taps.form = "list" /\ seqs[j].taps.val # << >>
               /\ (~sequences.val[j].isdict \/ sequences.val[j].taps.form \in {"absent", "none"})
                      => seqs[j].taps.val = << 0 >>
               /\ sequences.val[j].taps.form = "scalar"
                      => seqs[j].taps.val = sequences.val[j].taps.val
    /\ SequencesSliced =>
           \A i \in 0..(Len(seqs) - 1) :
               /\ \E j \in 1..Len(inner_seqs) : inner_seqs[j].src = i
               /\ \E j \in 1..Len(scan_seqs) : scan_seqs[j].src = i

----------------------------------------------------------------------------
(* C18 *)

\* the window handed to the Scan op for a tap, in the order of the source
SourceOrder(sq) == IF go_backwards THEN Reverse(sq.idx) ELSE sq.idx

\* offset + k - mintap, with offset = |maxtap| if maxtap < 0 and 0 otherwise
ClaimedStart(sq) ==
    LET taps == At(seqs, sq.src).taps.val
    IN  (IF SeqMax(taps) < 0 THEN Abs(SeqMax(taps)) ELSE 0) + sq.k - SeqMin(taps)

\* C18: the window of the source handed to the Scan op for tap k of a
\* sequence starts at index offset + k - mintap, and at every step the
\* entries of the windows of two taps k and j of one sequence are k - j
\* positions of the source apart, also for a sequence with one non-zero tap.
C18_WindowOfTap ==
    SequencesSliced =>
        /\ \A j \in 1..Len(scan_seqs) :
               SourceOrder(scan_seqs[j]) # << >> =>
                   SourceOrder(scan_seqs[j])[1] = ClaimedStart(scan_seqs[j])
        /\ \A i, j \in 1..Len(scan_seqs) :
               scan_seqs[i].src = scan_seqs[j].src =>
                   \A t \in 1..Min2(Len(scan_seqs[i].idx), Len(scan_seqs[j].idx)) :
                       SourceOrder(scan_seqs[i])[t] - SourceOrder(scan_seqs[j])[t]
                           = scan_seqs[i].k - scan_seqs[j].k

----------------------------------------------------------------------------
(* C17 *)

\* the shared variables the dummy function found, with and without an
\* update rule
CellsWithUpdate == { fn.shared[j].cell : j \in { x \in 1..Len(fn.shared) : fn.shared[x].update } }

CellsWithoutUpdate ==
    { fn.shared[j].cell : j \in { x \in 1..Len(fn.shared) : ~fn.shared[x].update } }

\* C17: on the Scan op path the update map returned has one entry per shared
\* variable the dummy function found with an update rule, its key the
\* variable and its value the Scan op's result for that update; a shared
\* variable without an update is in no entry and is handed to the Scan op
\* as an input; every shared variable found is in exactly one of the groups.
C17_UpdateMap ==
    (pc = "done" /\ OnScanPath) =>
        /\ DOMAIN result.updates = CellsWithUpdate
        /\ \A c \in DOMAIN result.updates :
               /\ result.updates[c].via = "scan"
               /\ result.updates[c].out = Out("update", c, TRUE)
        /\ \A c \in CellsWithoutUpdate :
               /\ c \notin DOMAIN result.updates
               /\ \E j \in 1..Len(scan_inputs) : scan_inputs[j] = In("other_shared", c)
        /\ Range(shared_scan_inputs) \cap Range(other_shared_scan_args) = {}
        /\ Range(shared_scan_inputs) \cup Range(other_shared_scan_args)
               = CellsWithUpdate \cup CellsWithoutUpdate

----------------------------------------------------------------------------
(* C19 *)

\* n copies of x
Copies(x, n) == [ j \in 1..n |-> x ]

Kinds(l) == [ j \in 1..Len(l) |-> l[j].kind ]

\* the entries of the given kind, in their order
OfKind(l, kind) == SelectSeq(l, LAMBDA x : x.kind = kind)

\* the shared variables fn uses, with and without an update, in the order
\* the dummy function lists them
CellsInOrder(withUpdate) ==
    LET found == SelectSeq(fn.shared, LAMBDA x : x.update = withUpdate)
    IN  [ j \in 1..Len(found) |-> found[j].cell ]

\* the non_sequences that are no shared variables, in the order given
PlainNonSeqs ==
    LET plain == SelectSeq(GivenNonSeqs, LAMBDA a : ~a.shared)
    IN  [ j \in 1..Len(plain) |-> plain[j].id ]

\* C19: the inputs of the Scan op are the trip count, the windowed
\* sequences, the mit_sot buffers, the sit_sot buffers, the shared variables
\* with an update, the trip count once per nit_sot output and the remaining
\* non sequences, in this order; the inner placeholders follow the same
\* order of categories, and the i-th shared variable and the i-th non
\* sequence of the outer list are those the i-th shared placeholder and the
\* i-th non-sequence placeholder of the inner list stand for.
C19_InputOrder ==
    (pc \in {"applied", "done"} /\ OnScanPath) =>
        LET n_upd  == Len(CellsInOrder(TRUE))
            n_rest == Len(CellsInOrder(FALSE))
            placeholders == OfKind(inner_inputs, "shared_copy")
            copies == OfKind(inner_inputs, "nonseq_copy")
        IN  /\ Kinds(scan_inputs) =
                   << "n_steps" >>
                       \o Copies("seq", Len(scan_seqs))
                       \o Copies("mit_sot", Len(mit_sot_rightOrder))
                       \o Copies("sit_sot", Len(sit_sot_rightOrder))
                       \o Copies("shared", n_upd)
                       \o Copies("n_steps", Len(nit_sot_rightOrder))
                       \o Copies("other_shared", n_rest)
                       \o Copies("other", Len(PlainNonSeqs))
            /\ \A j \in 1..Len(scan_inputs) :
                   scan_inputs[j].kind = "n_steps" => scan_inputs[j].v = actual_n_steps
            /\ [ j \in 1..Len(scan_seqs) |-> scan_inputs[1 + j].v ] = scan_seqs
            /\ [ j \in 1..Len(OfKind(scan_inputs, "mit_sot")) |->
                     OfKind(scan_inputs, "mit_sot")[j].v.src ] = mit_sot_rightOrder
            /\ [ j \in 1..Len(OfKind(scan_inputs, "sit_sot")) |->
                     OfKind(scan_inputs, "sit_sot")[j].v.src ] = sit_sot_rightOrder
            /\ Kinds(inner_inputs) =
                   Copies("seq_ph", Len(scan_seqs))
                       \o Copies("out_ph", Len(mit_sot_inner_inputs) + Len(sit_sot_rightOrder))
                       \o Copies("shared_copy", n_upd + n_rest)
                       \o Copies("nonseq_copy", Len(PlainNonSeqs))
            /\ [ j \in 1..Len(OfKind(inner_inputs, "out_ph")) |->
                     OfKind(inner_inputs, "out_ph")[j].src ]
                   = Flatten([ j \in 1..Len(mit_sot_rightOrder) |->
                                 Copies(mit_sot_rightOrder[j], Len(mit_sot_tap_array[j])) ])
                       \o sit_sot_rightOrder
            /\ [ j \in 1..Len(OfKind(scan_inputs, "shared")) |->
                     OfKind(scan_inputs, "shared")[j].v ] = CellsInOrder(TRUE)
            /\ [ j \in 1..Len(placeholders) |-> placeholders[j].src ]
                   = CellsInOrder(TRUE) \o CellsInOrder(FALSE)
            /\ [ j \in 1..Len(OfKind(scan_inputs, "other_shared")) |->
                     OfKind(scan_inputs, "other_shared")[j].v ] = CellsInOrder(FALSE)
            /\ [ j \in 1..Len(OfKind(scan_inputs, "other")) |->
                     OfKind(scan_inputs, "other")[j].v ] = PlainNonSeqs
            /\ [ j \in 1..Len(copies) |-> copies[j].src ] = PlainNonSeqs

\* the Scan op was applied to a sequence, a mit_sot buffer, two shared
\* variables with an update, a trip count for a nit_sot output, two shared
\* variables without an update and two non sequences, one shared non
\* sequence having been left out
C19_Witness ==
    /\ pc = "applied" /\ OnScanPath
    /\ Len(scan_seqs) = 1
    /\ Len(mit_sot_rightOrder) = 1 /\ Len(nit_sot_rightOrder) = 1
    /\ Len(shared_scan_inputs) = 2 /\ Len(other_shared_scan_args) = 2
    /\ Len(GivenNonSeqs) = 3 /\ Len(PlainNonSeqs) = 2
    /\ Len(scan_inputs) = 10

----------------------------------------------------------------------------
(* C20 *)

\* the positions of outputs_info a call with the arguments x would warn about
WouldWarn(x) ==
    SelectSeq(Interval(0, Len(wrap_into_list(x))),
              LAMBDA i : OutWarns(At(wrap_into_list(x), i)))

\* C20: when a call has ended, with a result or with an error, the objects
\* the caller passed as sequences and outputs_info (the lists and every
\* dict in them) hold what they held before the call, so that a second call
\* with them wraps them the same way and logs the same warnings.
\* (non_sequences is only ever read: scan() works on a copy of it.)
C20_ArgumentsUnchanged ==
    pc \in {"done", "raised"} =>
        /\ caller_sequences = sequences
        /\ caller_outputs_info = outputs_info
        /\ pc = "done" => WouldWarn(caller_outputs_info) = warnings

----------------------------------------------------------------------------
(* C21 *)

\* the errors that scan() raises ahead of line 683: the conversion and the
\* dtype check of n_steps (324-336), the normalization of outputs_info (366),
\* the trip count (481) and the taps of the outputs (587)
ErrorsBeforeFn ==
    { ErrIntConversion, ErrNStepsDtype, ErrNoInitialState, ErrNoSteps, ErrFutureTaps }

\* C21: fn is invoked at most once in a call, and exactly once in a call that
\* returns a result; a call that ends with an error of the n_steps checks, of
\* the normalization of the outputs, of the missing trip count or of future
\* taps of an output has not invoked fn, and a call that ends with the error
\* of the output count has invoked fn and has compiled the probe function.
C21_FnInvokedOnce ==
    /\ fn_calls \in {0, 1}
    /\ pc = "done" => fn_calls = 1
    /\ (pc = "raised" /\ err \in ErrorsBeforeFn) =>
           /\ fn_calls = 0
           /\ ~dummy_f.compiled
    /\ (pc = "raised" /\ err = ErrOutputCount) =>
           /\ fn_calls = 1
           /\ dummy_f.compiled

\* a call that invoked fn once, compiled the probe and then ended on the count
\* of the outputs
C21_Witness ==
    /\ pc = "raised"
    /\ err = ErrOutputCount
    /\ fn_calls = 1
    /\ dummy_f.compiled
    /\ OutputsMiscounted

----------------------------------------------------------------------------
(* C22 *)

\* L - offset - (max(T) - min(T)) for the sequence a window was cut from, with
\* offset = |maxtap| if maxtap < 0 and 0 otherwise
ClaimedLength(sq) ==
    LET taps == At(seqs, sq.src).taps.val
    IN  At(seqs, sq.src).len
            - (IF SeqMax(taps) < 0 THEN Abs(SeqMax(taps)) ELSE 0)
            - (SeqMax(taps) - SeqMin(taps))

\* C22: every window cut for a tap of a sequence of length L with taps T has
\* the length L - offset - (max(T) - min(T)) whenever that number is not
\* negative, whichever tap it is cut for; so the windows of the taps of one
\* sequence all have one length, and give one value to the trip count.
C22_WindowLength ==
    SequencesSliced =>
        /\ \A j \in 1..Len(scan_seqs) :
               ClaimedLength(scan_seqs[j]) >= 0 =>
                   Len(scan_seqs[j].idx) = ClaimedLength(scan_seqs[j])
        /\ \A i, j \in 1..Len(scan_seqs) :
               (scan_seqs[i].src = scan_seqs[j].src
                    /\ ClaimedLength(scan_seqs[i]) >= 0) =>
                   Len(scan_seqs[i].idx) = Len(scan_seqs[j].idx)

====
